---- MODULE Spec2Model ----
(***************************************************************************)
(* Model of the request-orchestration core of gpt-flashcards               *)
(* (src/flashcards/sentences.py): the RateLimiter, the sqlite sentence     *)
(* cache, query_gpt and example_sentences.                                 *)
(*                                                                         *)
(* The program runs on one asyncio event loop: a task runs without         *)
(* interruption until it awaits something that is not ready, so every      *)
(* action below is one such uninterrupted run of a task or of a callback.  *)
(***************************************************************************)
EXTENDS Integers, Sequences, FiniteSets, TLC

(***************************************************************************)
(* Bounds of the model.                                                    *)
(***************************************************************************)
Capacity == 2        \* rpm handed to the RateLimiter under test
NumTasks == 3        \* tasks entering the scope of that limiter
MaxCacheOps == 3     \* cache operations in one behaviour of the cache harness
MaxPutLen == 2       \* longest list handed to one put
NumCallers == 1      \* tasks calling query_gpt or example_sentences
MaxRawLen == 4       \* length of the raw strings Cloze.from_str is given
NumSpeakers == 2     \* tasks calling tts
MaxBatch == 2        \* tasks handed to the TaskGroup of make_notes
MaxNotes == 2        \* notes of the source collection

RLTasks == 1..NumTasks
TimerIds == 1..(NumTasks + 1)

VARIABLES
    limiter,     \* the RateLimiter object the tasks of the limiter harness share
    rlpc,        \* where each of those tasks stands
    timerFired   \* TRUE once a cool-down timer of that limiter has elapsed

rlvars == <<limiter, rlpc, timerFired>>

VARIABLES
    db,          \* the sqlite file sentences.db
    putlog,      \* per word, the strings put since the word was last invalidated
    cacheOps,    \* number of cache operations of the cache harness so far
    lastOp       \* the last of those operations and the file it started from

cachevars == <<putlog, cacheOps, lastOp>>

VARIABLES
    rate_limiters,  \* the registry: a function from model names to RateLimiters
    client,         \* TRUE once init_client has made the openai client
    call            \* the frame of the call each caller task is running

genvars == <<rate_limiters, client, call>>

VARIABLES
    raw,         \* a raw string handed to Cloze.from_str
    cz           \* the Cloze made from it and its cached views, once computed

clozevars == <<raw, cz>>

VARIABLES
    speech,      \* the frame of the tts call each speaker task is running
    files,       \* the paths that exist in the media directory
    count        \* how often next(count) has been called

ttsvars == <<speech, files, count>>

VARIABLES
    args,        \* the tag filters of the command line
    notes,       \* the notes of the source collection
    batch        \* make_notes: its tasks, the TaskGroup, the progress bar, the deck

mainvars == <<args, notes, batch>>

vars == <<rlvars, db, cachevars, genvars, clozevars, ttsvars, mainvars>>

(***************************************************************************)
(* RateLimiter.  `value` and `waiters` are the state of asyncio.Semaphore: *)
(* the free permits and the FIFO queue of futures of suspended acquirers   *)
(* (a future is done once release has handed it a permit).  `sleepers` is  *)
(* the set of pending asyncio.sleep(61) tasks; a new task object is named  *)
(* by the least number that names no pending one.                          *)
(***************************************************************************)
RateLimiter(rpm) ==
    [value |-> rpm, waiters |-> <<>>, rpm |-> rpm, sleepers |-> {}]

\* Semaphore.locked(): no permit, or somebody is queued already
locked_never(L) == FALSE

locked(L) == L.value = 0 \/ Len(L.waiters) > 0

\* Semaphore._wake_up_next(): hand a permit to the first waiter not yet woken
RECURSIVE FirstPending(_, _)
FirstPending(ws, i) ==
    IF i > Len(ws) THEN 0
    ELSE IF ~ws[i].done THEN i
    ELSE FirstPending(ws, i + 1)

wake_up_next(L) ==
    LET i == FirstPending(L.waiters, 1) IN
    IF i = 0 THEN L
    ELSE [L EXCEPT !.value = @ - 1, !.waiters[i].done = TRUE]

\* Semaphore.release()
release(L) == wake_up_next([L EXCEPT !.value = @ + 1])

\* the part of Semaphore.acquire() that takes a free permit at once
acquire_now_keeps_permit(L) == L

acquire_now(L) == [L EXCEPT !.value = @ - 1]

\* the part of Semaphore.acquire() that queues the caller's future
acquire_wait(L, t) == [L EXCEPT !.waiters = Append(@, [task |-> t, done |-> FALSE])]

\* the part of Semaphore.acquire() that runs when the caller's future is done
RemoveWaiter(ws, t) == SelectSeq(ws, LAMBDA w : w.task # t)

acquire_resume(L, t) ==
    LET L1 == [L EXCEPT !.waiters = RemoveWaiter(@, t)] IN
    IF L1.value > 0 THEN wake_up_next(L1) ELSE L1

IsWoken(L, t) == \E i \in 1..Len(L.waiters) : L.waiters[i].task = t /\ L.waiters[i].done

\* RateLimiter.__aenter__ after the permit is held: start the cool-down timer
NewTask(L) == CHOOSE n \in 1..(Cardinality(L.sleepers) + 1) : n \notin L.sleepers

start_sleeper(L) == [L EXCEPT !.sleepers = @ \cup {NewTask(L)}]

\* the assertion of __aenter__
aenter_assert(L) == Cardinality(L.sleepers) <= L.rpm

\* RateLimiter.sleeper_callback
sleeper_callback(L, timer) ==
    release([L EXCEPT !.sleepers = @ \ {timer}])

\* RateLimiter.__aexit__
aexit_releases(L) == release(L)

aexit(L) == L

(***************************************************************************)
(* Text.  A Python str is a sequence of one-character strings.  The model  *)
(* works over the characters below; "P", "K" and "Q" are the upper-case    *)
(* forms of "p", "k" and "q".                                              *)
(***************************************************************************)
Letters == {"p", "P", "k", "K", "q", "Q", "x"}
IsSpace(c) == c \in {" ", "\n", "\t"}
IsWordChar(c) == c \in Letters \cup {"_"}

\* str.casefold() of one character
FoldChar(c) ==
    CASE c = "P" -> "p"
      [] c = "K" -> "k"
      [] c = "Q" -> "q"
      [] OTHER -> c

casefold(s) == [i \in 1..Len(s) |-> FoldChar(s[i])]

\* s[i:] and s[:i] with 1-based first index i
From(s, i) == SubSeq(s, i, Len(s))
Upto(s, i) == SubSeq(s, 1, i)

\* least j in from..Len(s) with s[j] = c, or 0
RECURSIVE Find(_, _, _)
Find(s, c, from) ==
    IF from > Len(s) THEN 0
    ELSE IF s[from] = c THEN from
    ELSE Find(s, c, from + 1)

\* str.index: least 1-based position at which a occurs in s, or 0 (ValueError)
StartsAt(s, a, i) == i + Len(a) - 1 <= Len(s) /\ SubSeq(s, i, i + Len(a) - 1) = a

RECURSIVE IndexFrom(_, _, _)
IndexFrom(s, a, i) ==
    IF i + Len(a) - 1 > Len(s) THEN 0
    ELSE IF StartsAt(s, a, i) THEN i
    ELSE IndexFrom(s, a, i + 1)

index(s, a) == IndexFrom(s, a, 1)

\* str.strip()
RECURSIVE lstrip(_)
lstrip(s) == IF s # <<>> /\ IsSpace(Head(s)) THEN lstrip(Tail(s)) ELSE s

RECURSIVE rstrip(_)
rstrip(s) == IF s # <<>> /\ IsSpace(s[Len(s)]) THEN rstrip(Upto(s, Len(s) - 1)) ELSE s

strip(s) == rstrip(lstrip(s))

\* str.split(sep) for a one-character separator
RECURSIVE split(_, _)
split(s, sep) ==
    LET i == Find(s, sep, 1) IN
    IF i = 0 THEN <<s>>
    ELSE <<Upto(s, i - 1)>> \o split(From(s, i + 1), sep)

\* sep.join(parts)
RECURSIVE join(_, _)
join(parts, sep) ==
    IF parts = <<>> THEN <<>>
    ELSE IF Len(parts) = 1 THEN parts[1]
    ELSE parts[1] \o sep \o join(Tail(parts), sep)

\* length of the run of whitespace (kind "s"), of \w characters (kind "w")
\* or of newlines (kind "n") that starts at s[i]
RECURSIVE Run(_, _, _)
Run(s, i, kind) ==
    IF i <= Len(s) /\ (CASE kind = "s" -> IsSpace(s[i])
                         [] kind = "w" -> IsWordChar(s[i])
                         [] kind = "n" -> s[i] = "\n")
    THEN 1 + Run(s, i + 1, kind)
    ELSE 0

(***************************************************************************)
(* flashcards/sanitize.py.  Each pattern is matched as re.sub does: at the *)
(* leftmost position where it matches, then again after the match.  The    *)
(* helpers return the 1-based end of the match that starts at i, or 0.     *)
(***************************************************************************)
\* html_re = <[^>]+?>
HtmlEnd(s, i) ==
    IF i <= Len(s) /\ s[i] = "<"
    THEN LET j == Find(s, ">", i + 1) IN IF j > i + 1 THEN j ELSE 0
    ELSE 0

RECURSIVE strip_html(_)
strip_html(s) ==
    IF s = <<>> THEN <<>>
    ELSE LET e == HtmlEnd(s, 1) IN
         IF e > 0 THEN strip_html(From(s, e + 1))
         ELSE <<Head(s)>> \o strip_html(Tail(s))

\* ruby_re = (?P<s>\s?)(?P<text>\w+)(?P<ruby>\[[^\]]+?\]); value: <<start of text, end of text, end of match>>
RubyAt(s, i) ==
    LET t == IF i <= Len(s) /\ IsSpace(s[i]) THEN i + 1 ELSE i
        TryText(b) ==
            LET n == Run(s, b, "w")
                o == b + n
                c == IF o <= Len(s) /\ s[o] = "[" THEN Find(s, "]", o + 1) ELSE 0
            IN IF n > 0 /\ c > o + 1 THEN <<b, o - 1, c>> ELSE <<>>
    IN IF TryText(t) # <<>> THEN TryText(t)
       ELSE IF t # i THEN TryText(i) ELSE <<>>

RECURSIVE strip_ruby(_)
strip_ruby(s) ==
    IF s = <<>> THEN <<>>
    ELSE LET m == RubyAt(s, 1) IN
         IF m # <<>> THEN SubSeq(s, m[1], m[2]) \o strip_ruby(From(s, m[3] + 1))
         ELSE <<Head(s)>> \o strip_ruby(Tail(s))

\* parenthetical_re = \s*\([^\)]*\)
ParenEnd(s, i) ==
    LET o == i + Run(s, i, "s") IN
    IF o <= Len(s) /\ s[o] = "(" THEN Find(s, ")", o + 1) ELSE 0

RECURSIVE strip_parenthetical(_)
strip_parenthetical(s) ==
    IF s = <<>> THEN <<>>
    ELSE LET e == ParenEnd(s, 1) IN
         IF e > 0 THEN strip_parenthetical(From(s, e + 1))
         ELSE <<Head(s)>> \o strip_parenthetical(Tail(s))

(***************************************************************************)
(* Patterns of flashcards/sentences.py.                                    *)
(***************************************************************************)
\* cloze_re = \{([^\}]*)\}: <<position of "{", position of "}">> of the
\* leftmost match at or after from, or <<>>
cloze_re_search_from(s, from) ==
    LET o == Find(s, "{", from)
        c == IF o = 0 THEN 0 ELSE Find(s, "}", o + 1)
    IN IF c > 0 THEN <<o, c>> ELSE <<>>

cloze_re_search(s) == cloze_re_search_from(s, 1) # <<>>

\* comma_re = ", |; |、" (the model writes the full-width comma as "~")
SepLen(s, i) ==
    IF i > Len(s) THEN 0
    ELSE IF s[i] = "~" THEN 1
    ELSE IF s[i] \in {",", ";"} /\ i < Len(s) /\ s[i + 1] = " " THEN 2
    ELSE 0

RECURSIVE CommaSplitFrom(_, _, _)
CommaSplitFrom(s, start, i) ==
    IF i > Len(s) THEN <<SubSeq(s, start, Len(s))>>
    ELSE LET n == SepLen(s, i) IN
         IF n > 0 THEN <<SubSeq(s, start, i - 1)>> \o CommaSplitFrom(s, i + n, i + n)
         ELSE CommaSplitFrom(s, start, i + 1)

comma_re_split(s) == CommaSplitFrom(s, 1, 1)

(***************************************************************************)
(* The sentence cache.  `exists` is DATABASE.exists(); `words` and         *)
(* `sentences` are the two tables in rowid order; seq_words and            *)
(* seq_sentences are the AUTOINCREMENT counters of the two tables.         *)
(***************************************************************************)
NoDatabase ==
    [exists |-> FALSE, words |-> <<>>, sentences |-> <<>>,
     seq_words |-> 0, seq_sentences |-> 0]

init_cache(d) == [d EXCEPT !.exists = TRUE]

\* `if not DATABASE.exists(): init_cache()`
ensure_cache(d) == IF d.exists THEN d ELSE init_cache(d)

\* SELECT id FROM words WHERE word = ?  (all rows, in rowid order)
select_word_ids(d, word) ==
    LET rows == SelectSeq(d.words, LAMBDA r : r.word = word)
    IN [i \in 1..Len(rows) |-> rows[i].id]

\* INSERT INTO words (word) VALUES (?)
insert_word(d, word) ==
    [d EXCEPT !.words = Append(@, [id |-> d.seq_words + 1, word |-> word]),
              !.seq_words = @ + 1]

\* INSERT INTO sentences (word, sentence) VALUES (?,?)
insert_sentence(d, word_id, sentence) ==
    [d EXCEPT !.sentences = Append(@, [id |-> d.seq_sentences + 1,
                                       word |-> word_id, sentence |-> sentence]),
              !.seq_sentences = @ + 1]

RECURSIVE insert_sentences(_, _, _)
insert_sentences(d, word_id, sentences) ==
    IF sentences = <<>> THEN d
    ELSE insert_sentences(insert_sentence(d, word_id, Head(sentences)),
                          word_id, Tail(sentences))

encache_nothing(d, word, sentences) == ensure_cache(d)

encache_sentences(d, word, sentences) ==
    LET d1 == ensure_cache(d)
        d2 == IF select_word_ids(d1, word) = <<>> THEN insert_word(d1, word) ELSE d1
        word_id == select_word_ids(d2, word)[1]
    IN insert_sentences(d2, word_id, sentences)

\* the rows of the LEFT JOIN for one words row: its sentences, or one NULL
joined_rows(d, word_id) ==
    LET rows == SelectSeq(d.sentences, LAMBDA r : r.word = word_id)
    IN IF rows = <<>> THEN <<[null |-> TRUE, sentence |-> <<>>]>>
       ELSE [i \in 1..Len(rows) |-> [null |-> FALSE, sentence |-> rows[i].sentence]]

RECURSIVE left_join(_, _)
left_join(d, ids) ==
    IF ids = <<>> THEN <<>>
    ELSE joined_rows(d, Head(ids)) \o left_join(d, Tail(ids))

\* `if row[0]`: neither NULL nor the empty string
truthy(row) == ~row.null /\ row.sentence # <<>>

\* the list decache_sentences returns
decache_sentences(d, word) ==
    LET rows == SelectSeq(left_join(d, select_word_ids(d, word)), truthy)
    IN [i \in 1..Len(rows) |-> rows[i].sentence]

\* the file after decache_sentences
decache_effect(d) == ensure_cache(d)

uncache_sentences(d, word) ==
    IF ~d.exists THEN d
    ELSE IF select_word_ids(d, word) = <<>> THEN d
    ELSE LET word_id == select_word_ids(d, word)[1]
         IN [d EXCEPT !.sentences = SelectSeq(@, LAMBDA r : r.word # word_id)]

(***************************************************************************)
(* Harness for the cache: put, get and invalidate are applied in any order *)
(* to words and lists of strings drawn from small sets.                    *)
(***************************************************************************)
CacheWords == {<<"p">>, <<"k">>}
CacheStrings == {<<>>, <<"p">>, <<"q">>}
CacheLists == UNION {[1..n -> CacheStrings] : n \in 0..MaxPutLen}

NoOp == [op |-> "", word |-> <<>>, sentences |-> <<>>, before |-> NoDatabase]
Op(op, word, sentences, d) ==
    [op |-> op, word |-> word, sentences |-> sentences, before |-> d]

CachePut(word, sentences) ==
    /\ UNCHANGED <<rlvars, genvars, clozevars, ttsvars, mainvars>>
    /\ cacheOps < MaxCacheOps
    /\ db' = encache_sentences(db, word, sentences)
    /\ putlog' = [putlog EXCEPT ![word] = @ \o sentences]
    /\ cacheOps' = cacheOps + 1
    /\ lastOp' = Op("put", word, sentences, db)

CacheGet(word) ==
    /\ UNCHANGED <<rlvars, genvars, clozevars, ttsvars, mainvars>>
    /\ cacheOps < MaxCacheOps
    /\ db' = decache_effect(db)
    /\ cacheOps' = cacheOps + 1
    /\ lastOp' = Op("get", word, <<>>, db)
    /\ UNCHANGED putlog

CacheInvalidate(word) ==
    /\ UNCHANGED <<rlvars, genvars, clozevars, ttsvars, mainvars>>
    /\ cacheOps < MaxCacheOps
    /\ db' = uncache_sentences(db, word)
    /\ putlog' = [putlog EXCEPT ![word] = <<>>]
    /\ cacheOps' = cacheOps + 1
    /\ lastOp' = Op("invalidate", word, <<>>, db)

CacheNext ==
    \/ \E word \in CacheWords, sentences \in CacheLists : CachePut(word, sentences)
    \/ \E word \in CacheWords : CacheGet(word)
    \/ \E word \in CacheWords : CacheInvalidate(word)

(***************************************************************************)
(* The registry of rate limiters.                                          *)
(***************************************************************************)
RATE_LIMITS ==
    [m \in {"gpt-3.5-turbo", "gpt-3.5-turbo-0301", "gpt-3.5-turbo-0613",
            "gpt-3.5-turbo-1106", "gpt-3.5-turbo-16k", "gpt-3.5-turbo-16k-0613",
            "gpt-3.5-turbo-instruct", "gpt-3.5-turbo-instruct-0914",
            "gpt-4", "gpt-4-0314", "gpt-4-0613", "gpt-4-1106-preview",
            "gpt-4-vision-preview", "tts-1", "tts-1-1106", "tts-1-hd",
            "tts-1-hd-1106"} |->
        CASE m \in {"gpt-3.5-turbo", "gpt-3.5-turbo-0301", "gpt-3.5-turbo-0613",
                    "gpt-3.5-turbo-1106", "gpt-3.5-turbo-16k",
                    "gpt-3.5-turbo-16k-0613"} -> 3500
          [] m \in {"gpt-3.5-turbo-instruct", "gpt-3.5-turbo-instruct-0914"} -> 3000
          [] m \in {"gpt-4", "gpt-4-0314", "gpt-4-0613", "gpt-4-1106-preview"} -> 500
          [] m = "gpt-4-vision-preview" -> 80
          [] m \in {"tts-1", "tts-1-1106"} -> 50
          [] m \in {"tts-1-hd", "tts-1-hd-1106"} -> 3]

\* get_rate_limiter raises KeyError: the name is in neither dict
get_rate_limiter_raises(R, model) ==
    model \notin DOMAIN R /\ model \notin DOMAIN RATE_LIMITS

\* the registry after get_rate_limiter(model) has returned
get_rate_limiter(R, model) ==
    IF model \in DOMAIN R THEN R
    ELSE [m \in DOMAIN R \cup {model} |->
            IF m = model THEN RateLimiter(RATE_LIMITS[model]) ELSE R[m]]

(***************************************************************************)
(* Cloze.from_str.                                                         *)
(***************************************************************************)
RECURSIVE from_str_loop(_, _, _, _)
from_str_loop(s, i, context, deletions) ==
    LET m == cloze_re_search_from(s, i) IN
    IF m = <<>>
    THEN [context |-> Append(context, From(s, i)), deletions |-> deletions]
    ELSE from_str_loop(s, m[2] + 1,
                       Append(context, SubSeq(s, i, m[1] - 1)),
                       Append(deletions, SubSeq(s, m[1] + 1, m[2] - 1)))

from_str(s) == from_str_loop(s, 1, <<>>, <<>>)

\* the default value "..." of fill and the emphasis it wraps values in
Ellipsis == <<".", ".", ".">>
wrap(value) == <<"<", "b", ">">> \o value \o <<"<", "/", "b", ">">>

\* Cloze.fill: zip(context, cycle(wrapped)) flattened, cut after the last
\* context fragment and joined
fill(self, values) ==
    LET vals == IF values = <<>> THEN <<Ellipsis>> ELSE values
        wrapped == [i \in 1..Len(vals) |-> wrap(vals[i])]
        n == Len(self.context)
        parts == [k \in 1..(2 * n) |->
                    IF k % 2 = 1 THEN self.context[(k + 1) \div 2]
                    ELSE wrapped[((k \div 2 - 1) % Len(wrapped)) + 1]]
    IN join(SubSeq(parts, 1, 2 * n - 1), <<>>)

\* the two cached properties, Cloze.cloze and Cloze.sentence
Cloze_cloze(self) == fill(self, <<>>)
Cloze_sentence(self) == fill(self, self.deletions)

(***************************************************************************)
(* query_gpt from the response on: parsing and repair.                     *)
(***************************************************************************)
\* the match of \A\s*(?P<sentence>.+?)\n+(?P<translation>.+?)\s*\Z on a
\* stripped text: <<sentence, translation>>, or <<>> when there is none
response_match(text) ==
    LET i == Find(text, "\n", 1)
        j == IF i = 0 THEN 0 ELSE i + Run(text, i, "n")
    IN IF i >= 2 /\ j <= Len(text) /\ Find(text, "\n", j) = 0
       THEN <<Upto(text, i - 1), From(text, j)>>
       ELSE <<>>

\* the loop of encloze over the alternatives
RECURSIVE encloze_loop(_, _, _)
encloze_loop(sentence, alternatives, clozed) ==
    IF alternatives = <<>> THEN [clozed |-> clozed, sentence |-> sentence]
    ELSE LET a == Head(alternatives)
             i == index(casefold(sentence), casefold(a))
         IN IF i = 0 THEN encloze_loop(sentence, Tail(alternatives), clozed)
            ELSE encloze_loop(Upto(sentence, i - 1) \o <<"{">> \o a \o <<"}">>
                                  \o From(sentence, i + Len(a)),
                              Tail(alternatives), TRUE)

\* encloze: `clozed` FALSE stands for the ValueError
encloze(sentence, words) == encloze_loop(sentence, comma_re_split(words), FALSE)

NoError == [what |-> "", text |-> <<>>, alternatives |-> <<>>]

\* str(e) of the two ValueErrors of query_gpt
parse_error(response) ==
    [what |-> "Could not parse GPT response", text |-> response, alternatives |-> <<>>]

cloze_error(alternatives, sentence) ==
    [what |-> "could not cloze any of", text |-> sentence, alternatives |-> alternatives]

\* lines 210-250 of query_gpt: the exception raised ("" for none), its
\* message, and the row to cache.  meaning is <<>> for None, <<m>> for m.
digest(word, meaning, content) ==
    LET response == strip(content)
        match == response_match(response)
        plain_word == strip_parenthetical(strip_html(strip_ruby(word)))
        fixed == IF cloze_re_search(match[1])
                 THEN [clozed |-> TRUE, sentence |-> match[1]]
                 ELSE encloze(match[1], plain_word)
        plain_meaning == strip_parenthetical(strip_html(strip_ruby(meaning[1])))
        translation == IF cloze_re_search(match[2]) THEN match[2]
                       ELSE LET e == encloze(match[2], plain_meaning)
                            IN IF e.clozed THEN e.sentence ELSE match[2]
    IN IF match = <<>>
       THEN [exc |-> "ValueError", msg |-> parse_error(response), row |-> <<>>]
       ELSE IF ~fixed.clozed
       THEN [exc |-> "ValueError",
             msg |-> cloze_error(comma_re_split(plain_word), match[1]), row |-> <<>>]
       ELSE IF ~cloze_re_search(match[2]) /\ meaning = <<>>
       THEN [exc |-> "TypeError", msg |-> NoError, row |-> <<>>]
       ELSE [exc |-> "", msg |-> NoError,
             row |-> fixed.sentence \o <<"\n">> \o translation]

(***************************************************************************)
(* Calls of query_gpt and example_sentences.  A frame holds the arguments  *)
(* of the call a task makes, where the task stands (pc), the errors list   *)
(* of example_sentences, the way the call ended, and what the call did so  *)
(* far: for each query_gpt invocation whether it found cached rows         *)
(* (found), slots taken, requests sent and the responses received          *)
(* (served).                                                               *)
(***************************************************************************)
Callers == 1..NumCallers

Attempts == 3                                   \* range(3) in example_sentences
query_gpt_default_model == "gtp-4-1106-preview"
example_sentences_default_model == "gpt-4-1106-preview"

IdleCall ==
    [pc |-> "idle", kind |-> "", word |-> <<>>, meaning |-> <<>>, model |-> "",
     errors |-> <<>>, exc |-> "", msg |-> NoError, rows |-> <<>>, examples |-> <<>>,
     found |-> <<>>, slots |-> 0, requests |-> 0, served |-> <<>>]

\* number of query_gpt invocations of a frame, and of those that hit the cache
Calls(c) == Len(c.found)
Hits(c) == Cardinality({i \in 1..Len(c.found) : c.found[i]})

\* the model query_gpt runs with: example_sentences does not hand its own on
query_model(c) ==
    IF c.kind = "query_gpt" THEN c.model ELSE query_gpt_default_model

\* the state a run of a task leaves behind
Outcome(d, R, cl, c) == [db |-> d, rate_limiters |-> R, client |-> cl, call |-> c]

\* the call ends with an exception
raised(c, exc, msg) == [c EXCEPT !.pc = "done", !.exc = exc, !.msg = msg]

\* lines 272-277 of example_sentences
pair_of(row) ==
    LET parts == split(row, <<"\n">>[1]) IN <<from_str(parts[1]), from_str(parts[2])>>

unpacks(row) == Len(split(row, <<"\n">>[1])) = 2

\* query_gpt has returned rows to its caller
query_returned(c, rows) ==
    IF c.kind = "query_gpt"
    THEN [c EXCEPT !.pc = "done", !.rows = rows]
    ELSE IF \A i \in 1..Len(rows) : unpacks(rows[i])
    THEN [c EXCEPT !.pc = "done", !.rows = rows,
                   !.examples = [i \in 1..Len(rows) |-> pair_of(rows[i])]]
    ELSE raised(c, "ValueError", [NoError EXCEPT !.what = "unpack"])

\* __aenter__ once the permit is held, then the request is sent
enter_scope(c, d, R) ==
    LET m == query_model(c)
        L == start_sleeper(R[m])
        R1 == [R EXCEPT ![m] = L]
    IN IF aenter_assert(L)
       THEN Outcome(d, R1, TRUE, [c EXCEPT !.pc = "requesting", !.slots = @ + 1,
                                            !.requests = @ + 1])
       ELSE Outcome(d, R1, TRUE, raised(c, "AssertionError", NoError))

\* `if (cached_sentences := decache_sentences(word))`
cache_hit_never(cached_sentences) == FALSE

cache_hit(cached_sentences) == cached_sentences # <<>>

\* query_gpt from its first line to its first suspension (lines 194-201)
query_gpt_begin(t, c0, d, R, cl) ==
    LET cached_sentences == decache_sentences(d, c0.word)
        c == [c0 EXCEPT !.found = Append(@, cache_hit(cached_sentences))]
        d1 == decache_effect(d)
        m == query_model(c)
    IN IF cache_hit(cached_sentences)
       THEN Outcome(d1, R, cl, query_returned(c, cached_sentences))
       ELSE IF get_rate_limiter_raises(R, m)
       THEN Outcome(d1, R, TRUE, raised(c, "KeyError", NoError))
       ELSE LET R1 == get_rate_limiter(R, m) IN
            IF ~locked(R1[m])
            THEN enter_scope(c, d1, [R1 EXCEPT ![m] = acquire_now(@)])
            ELSE Outcome(d1, [R1 EXCEPT ![m] = acquire_wait(@, t)], TRUE,
                         [c EXCEPT !.pc = "acquiring"])

\* query_gpt has raised ValueError: lines 267-270 and 278-279 of
\* example_sentences, or the end of a direct call
query_raised_ValueError_caches(t, c, msg, d, R, cl) ==
    Outcome(encache_sentences(d, c.word, <<>>), R, cl, raised(c, "ValueError", msg))

query_raised_ValueError(t, c, msg, d, R, cl) ==
    IF c.kind = "query_gpt"
    THEN Outcome(d, R, cl, raised(c, "ValueError", msg))
    ELSE LET c1 == [c EXCEPT !.errors = Append(@, msg)] IN
         IF Len(c1.errors) = Attempts
         THEN Outcome(d, R, cl,
                      raised(c1, "ValueError", [NoError EXCEPT !.what = "repeatedly queried GPT"]))
         ELSE query_gpt_begin(t, c1, d, R, cl)

\* the request of a task ends: lines 201-254 of query_gpt and whatever its
\* caller does next, up to the next suspension
on_response(t, c0, response, d, R, cl) ==
    LET m == query_model(c0)
        c == [c0 EXCEPT !.served = Append(@, response)]
        R1 == [R EXCEPT ![m] = aexit(@)]
        r == digest(c.word, c.meaning, response.content)
    IN IF response.error
       THEN Outcome(d, R1, cl, raised(c, "APIError", NoError))
       ELSE IF r.exc = "ValueError"
       THEN query_raised_ValueError(t, c, r.msg, d, R1, cl)
       ELSE IF r.exc = "TypeError"
       THEN Outcome(d, R1, cl, raised(c, "TypeError", NoError))
       ELSE Outcome(encache_sentences(d, c.word, <<r.row>>), R1, cl,
                    query_returned(c, <<r.row>>))

(***************************************************************************)
(* tts.  A frame holds the arguments of the call, where the task stands,   *)
(* the text sent and the voice chosen, the way the call ended, and the     *)
(* slots taken and requests sent so far.                                   *)
(***************************************************************************)
Speakers == 1..NumSpeakers
tts_model == "tts-1"
Voices == <<"alloy", "echo", "fable", "onyx", "nova", "shimmer">>

IdleSpeech ==
    [pc |-> "idle", sentence |-> <<>>, path |-> <<>>, input |-> <<>>, voice |-> "",
     exc |-> "", slots |-> 0, requests |-> 0]

\* the state a run of a speaker task leaves behind
SpeechOutcome(F, n, R, cl, f) ==
    [files |-> F, count |-> n, rate_limiters |-> R, client |-> cl, speech |-> f]

\* `if path.exists()`
path_exists_never(F, path) == FALSE

path_exists(F, path) == path \in F

\* `if not sentence`
tts_empty_never(stripped) == FALSE

tts_empty(stripped) == stripped = <<>>

\* __aenter__ of the tts-1 limiter once the permit is held, then the request
tts_enter_scope(f, F, n, R) ==
    LET L == start_sleeper(R[tts_model])
        R1 == [R EXCEPT ![tts_model] = L]
    IN IF aenter_assert(L)
       THEN SpeechOutcome(F, n, R1, TRUE,
                [f EXCEPT !.pc = "requesting", !.slots = @ + 1, !.requests = @ + 1])
       ELSE SpeechOutcome(F, n, R1, TRUE,
                [f EXCEPT !.pc = "done", !.exc = "AssertionError"])

\* tts from its first line to its first suspension (lines 286-300)
tts_begin(t, f, F, n, R, cl) ==
    LET stripped == strip_html(strip_ruby(f.sentence)) IN
    IF path_exists(F, f.path)
    THEN SpeechOutcome(F, n, R, cl, [f EXCEPT !.pc = "done"])
    ELSE IF tts_empty(stripped)
    THEN SpeechOutcome(F, n, R, cl, [f EXCEPT !.pc = "done", !.exc = "Exception"])
    ELSE LET f1 == [f EXCEPT !.input = stripped, !.voice = Voices[(n % 6) + 1]]
             R1 == get_rate_limiter(R, tts_model)
         IN IF ~locked(R1[tts_model])
            THEN tts_enter_scope(f1, F, n + 1, [R1 EXCEPT ![tts_model] = acquire_now(@)])
            ELSE SpeechOutcome(F, n + 1, [R1 EXCEPT ![tts_model] = acquire_wait(@, t)],
                               TRUE, [f1 EXCEPT !.pc = "acquiring"])

\* the semaphore has handed its permit to the suspended call
tts_resume(t, f, F, n, R) ==
    tts_enter_scope(f, F, n, [R EXCEPT ![tts_model] = acquire_resume(@, t)])

\* the request ends: the scope is left and the audio written (lines 300-307)
tts_response(f, response, F, n, R, cl) ==
    LET R1 == [R EXCEPT ![tts_model] = aexit(@)] IN
    IF response.error
    THEN SpeechOutcome(F, n, R1, cl, [f EXCEPT !.pc = "done", !.exc = "APIError"])
    ELSE SpeechOutcome(F \cup {f.path}, n, R1, cl, [f EXCEPT !.pc = "done"])

(***************************************************************************)
(* flashcards/__main__.py: make_sentence_note.  The record of a task holds *)
(* its arguments, whether it is created, suspended or done, how it ended,  *)
(* whether a cancellation was requested, whether its done callbacks have   *)
(* run, and the frames of its example_sentences and tts calls.  `w` is the *)
(* state the task shares with the others.                                  *)
(***************************************************************************)
\* ruby_re = \[[^\]]+?\] of __main__.py
MainRubyEnd(s, i) ==
    IF i <= Len(s) /\ s[i] = "["
    THEN LET j == Find(s, "]", i + 1) IN IF j > i + 1 THEN j ELSE 0
    ELSE 0

RECURSIVE main_strip_ruby(_)
main_strip_ruby(s) ==
    IF s = <<>> THEN <<>>
    ELSE LET e == MainRubyEnd(s, 1) IN
         IF e > 0 THEN main_strip_ruby(From(s, e + 1))
         ELSE <<Head(s)>> \o main_strip_ruby(Tail(s))

\* html_re of __main__.py is the pattern of sanitize.py
main_strip_html(s) == strip_html(s)

\* str.translate with a table keyed by strings replaces nothing
safe_word(word) == main_strip_ruby(main_strip_html(word))

\* media_path / f"{safe_word}.mp3"
audio_path(word) == <<"media/">> \o safe_word(word) \o <<".mp3">>

NoteTask(word, meaning) ==
    [word |-> word, meaning |-> meaning, st |-> "created", outcome |-> "",
     must_cancel |-> FALSE, reported |-> FALSE,
     call |-> IdleCall, speech |-> IdleSpeech]

\* the task ends: "ok", "cancelled" or the name of the exception it raised
finish(task, outcome) == [task EXCEPT !.st = "done", !.outcome = outcome]

Step(w, task) == [w |-> w, task |-> task]

\* update_note: the audio file is listed and the note added to the deck
update_note(w, task, sentence, translation, voice) ==
    [w EXCEPT !.media_files = Append(@, voice),
              !.deck = Append(@, [word |-> task.word, sentence |-> sentence,
                                  translation |-> translation, voice |-> voice])]

\* make_sentence_note from the end of a step of tts on (lines 222-224)
after_tts(task, w) ==
    LET f == task.speech IN
    IF f.pc # "done" THEN Step(w, [task EXCEPT !.st = "suspended"])
    ELSE IF f.exc # "" THEN Step(w, finish(task, f.exc))
    ELSE LET pair == task.call.examples[1]
         IN Step(update_note(w, task, Cloze_sentence(pair[1]),
                             Cloze_sentence(pair[2]), f.path),
                 finish(task, "ok"))

RunSpeech(task, w, o) ==
    after_tts([task EXCEPT !.speech = o.speech],
              [w EXCEPT !.files = o.files, !.count = o.count,
                        !.rate_limiters = o.rate_limiters, !.client = o.client])

\* make_sentence_note from the end of a step of example_sentences on
\* (lines 218-222)
after_example_sentences(i, task, w) ==
    LET c == task.call IN
    IF c.pc # "done" THEN Step(w, [task EXCEPT !.st = "suspended"])
    ELSE IF c.exc # "" THEN Step(w, finish(task, c.exc))
    ELSE IF c.examples = <<>> THEN Step(w, finish(task, "ValueError"))
    ELSE LET f == [IdleSpeech EXCEPT !.sentence = Cloze_sentence(c.examples[1][1]),
                                     !.path = audio_path(task.word)]
         IN RunSpeech(task, w, tts_begin(i, f, w.files, w.count,
                                         w.rate_limiters, w.client))

RunCall(i, task, w, o) ==
    after_example_sentences(i, [task EXCEPT !.call = o.call],
        [w EXCEPT !.db = o.db, !.rate_limiters = o.rate_limiters,
                  !.client = o.client])

\* the word make_sentence_note hands to example_sentences: f"{word} ({meaning})"
prompt_word(task) == task.word \o <<" ", "(">> \o task.meaning \o <<")">>

\* the first step of the task
note_start(i, task, w) ==
    LET c == [IdleCall EXCEPT !.kind = "example_sentences",
                              !.word = prompt_word(task),
                              !.model = example_sentences_default_model]
    IN RunCall(i, task, w, query_gpt_begin(i, c, w.db, w.rate_limiters, w.client))

\* the task is resumed where it was suspended
note_wake(i, task, response, w) ==
    IF task.call.pc = "acquiring"
    THEN LET m == query_model(task.call) IN
         RunCall(i, task, w,
                 enter_scope(task.call, w.db,
                             [w.rate_limiters EXCEPT ![m] = acquire_resume(@, i)]))
    ELSE IF task.call.pc = "requesting"
    THEN RunCall(i, task, w,
                 on_response(i, task.call, response, w.db, w.rate_limiters, w.client))
    ELSE IF task.speech.pc = "acquiring"
    THEN RunSpeech(task, w,
                   tts_resume(i, task.speech, w.files, w.count, w.rate_limiters))
    ELSE RunSpeech(task, w,
                   tts_response(task.speech, response, w.files, w.count,
                                w.rate_limiters, w.client))

\* Semaphore.acquire() when CancelledError is thrown at `await fut`
acquire_cancel_keeps_permit(L, t) == [L EXCEPT !.waiters = RemoveWaiter(@, t)]

acquire_cancel(L, t) ==
    LET L1 == [L EXCEPT !.waiters = RemoveWaiter(@, t)] IN
    IF IsWoken(L, t) THEN wake_up_next([L1 EXCEPT !.value = @ + 1]) ELSE L1

\* CancelledError is thrown into the task, at its first step or at the
\* await it is suspended at; no handler of the task catches it
note_cancel(i, task, w) ==
    LET m == IF task.call.pc = "acquiring" THEN query_model(task.call) ELSE tts_model
        waiting == task.call.pc = "acquiring" \/ task.speech.pc = "acquiring"
    IN Step(IF waiting
            THEN [w EXCEPT !.rate_limiters[m] = acquire_cancel(@, i)]
            ELSE w,
            finish(task, "cancelled"))

(***************************************************************************)
(* flashcards/__main__.py: make_notes and the lines after it.  `batch.pc`  *)
(* is "start" before make_notes runs, "exited" after sys.exit(1),          *)
(* "joining" while the TaskGroup waits for its tasks, "failed" when the    *)
(* error of the group has left asyncio.run, and "written" when the package *)
(* has been written.  `wake` says that the waiting parent has been woken.  *)
(***************************************************************************)
source_model == 1

NoBatch ==
    [pc |-> "start", pending |-> <<>>, tasks |-> <<>>, bar |-> [n |-> 0, total |-> 0],
     errors |-> <<>>, aborting |-> FALSE, parent_cancel_requested |-> FALSE,
     wake |-> FALSE, deck |-> <<>>, media_files |-> <<>>]

\* the condition of the loop of make_notes (lines 237-241); include_tags is
\* {} when the option is not given
selected(note, a) ==
    /\ note.model = source_model
    /\ a.include_tags = {} \/ a.include_tags \cap note.tags # {}
    /\ a.exclude_tags \cap note.tags = {}

\* re.match of the default \A\s*(?P<word>.+?)\s*\Z: <<the group>> or <<>>
field_match(value) ==
    LET g == strip(value) IN
    IF g # <<>> /\ Find(g, "\n", 1) = 0 THEN <<g>> ELSE <<>>

\* collection.notes[:1]
considered(ns) == SubSeq(ns, 1, IF Len(ns) < 1 THEN Len(ns) ELSE 1)

\* the loop of make_notes (lines 235-254): the arguments of the tasks, or
\* exit when a field does not match its pattern
RECURSIVE make_notes_loop(_, _, _)
make_notes_loop(ns, a, tasks) ==
    IF ns = <<>> THEN [exit |-> FALSE, tasks |-> tasks]
    ELSE IF ~selected(Head(ns), a) THEN make_notes_loop(Tail(ns), a, tasks)
    ELSE LET word_match == field_match(main_strip_html(Head(ns).word))
             meaning_match == field_match(main_strip_html(Head(ns).meaning))
         IN IF word_match = <<>> \/ meaning_match = <<>>
            THEN [exit |-> TRUE, tasks |-> tasks]
            ELSE make_notes_loop(Tail(ns), a,
                     Append(tasks, [word |-> word_match[1],
                                    meaning |-> meaning_match[1]]))

\* lines 256-267 up to the first suspension: the bar and the tasks are
\* made; a group without tasks is left at once and the package written
start_group(b, tasks) ==
    LET b1 == [b EXCEPT !.pending = <<>>,
                        !.tasks = [i \in 1..Len(tasks) |->
                                      NoteTask(tasks[i].word, tasks[i].meaning)],
                        !.bar = [n |-> 0, total |-> Len(tasks)]]
    IN IF tasks = <<>> THEN [b1 EXCEPT !.pc = "written"]
       ELSE [b1 EXCEPT !.pc = "joining"]

\* TaskGroup._abort
abort_nothing(b) == [b EXCEPT !.aborting = TRUE]

abort(b) ==
    [b EXCEPT !.aborting = TRUE,
              !.tasks = [j \in 1..Len(b.tasks) |->
                            IF ~b.tasks[j].reported /\ b.tasks[j].st # "done"
                            THEN [b.tasks[j] EXCEPT !.must_cancel = TRUE]
                            ELSE b.tasks[j]]]

IsError(outcome) == outcome \notin {"", "ok", "cancelled"}

\* TaskGroup._on_task_done, the first done callback of task i
on_task_done(b, i) ==
    LET b1 == [b EXCEPT !.tasks[i].reported = TRUE]
        b2 == IF \A j \in 1..Len(b1.tasks) : b1.tasks[j].reported
              THEN [b1 EXCEPT !.wake = TRUE] ELSE b1
    IN IF ~IsError(b.tasks[i].outcome) THEN b2
       ELSE LET b3 == [b2 EXCEPT !.errors = Append(@, [task |-> i, exc |-> b.tasks[i].outcome])]
            IN IF ~b3.aborting /\ ~b3.parent_cancel_requested
               THEN [abort(b3) EXCEPT !.parent_cancel_requested = TRUE, !.wake = TRUE]
               ELSE b3

\* `lambda _: bar.update()`, the second done callback
bar_update_never(b) == b

bar_update(b) == [b EXCEPT !.bar.n = @ + 1]

\* TaskGroup.__aexit__ when the parent is resumed, and lines 263-267
group_aexit(b) ==
    IF \E j \in 1..Len(b.tasks) : ~b.tasks[j].reported
    THEN [b EXCEPT !.wake = FALSE]
    ELSE IF b.errors # <<>> THEN [b EXCEPT !.wake = FALSE, !.pc = "failed"]
    ELSE [b EXCEPT !.wake = FALSE, !.pc = "written"]

(***************************************************************************)
(* Harness for the generation client: NumCallers tasks call query_gpt or   *)
(* example_sentences with arguments from small sets; the service answers   *)
(* every request with any of a few texts or with an error.                 *)
(***************************************************************************)
Words == {<<"p">>, <<"k", ",", " ", "p", " ", "(", "q", ")">>}
Meanings == {<<>>, <<<<"q">>>>}
Models == {example_sentences_default_model, "tts-1-hd"}

\* the ways the two functions are called: example_sentences as
\* make_sentence_note calls it, without a model, and query_gpt with a model
Entries ==
    {[kind |-> "example_sentences", model |-> example_sentences_default_model]}
    \cup {[kind |-> "query_gpt", model |-> m] : m \in Models}

Text(content) == [error |-> FALSE, content |-> content]
Malformed == Text(<<"x">>)
Marked == Text(<<"{", "p", "}", "\n", "{", "q", "}">>)
Unmarked == Text(<<"P", "x", "\n", "Q">>)
Unrepairable == Text(<<"x", "\n", "{", "q", "}">>)
HalfMarked == Text(<<" ", "{", "p", "}", "\n", "\n", "x", "\n">>)
ServiceError == [error |-> TRUE, content |-> <<>>]
Responses == {Malformed, Marked, Unmarked, Unrepairable, HalfMarked, ServiceError}

\* a limiter of tts-1-hd whose permits were all taken by earlier calls
RECURSIVE Used(_, _)
Used(L, n) == IF n = 0 THEN L ELSE Used(start_sleeper(acquire_now(L)), n - 1)

UsedUp == [m \in {"tts-1-hd"} |-> Used(RateLimiter(RATE_LIMITS[m]), RATE_LIMITS[m])]

\* a cache file in which an earlier run has left a row
Marked_row == digest(<<"p">>, <<>>, Marked.content).row

Populated == encache_sentences(NoDatabase, <<"p">>, <<Marked_row>>)

GenTimerIds == 1..(RATE_LIMITS["tts-1-hd"] + NumCallers * Attempts)

Apply(o) ==
    /\ db' = o.db
    /\ rate_limiters' = o.rate_limiters
    /\ client' = o.client

\* a task calls query_gpt or example_sentences
GCall(t, entry, word, meaning) ==
    /\ UNCHANGED <<rlvars, cachevars, clozevars, ttsvars, mainvars>>
    /\ call[t].pc = "idle"
    /\ LET c == [IdleCall EXCEPT !.kind = entry.kind, !.word = word,
                                 !.meaning = meaning, !.model = entry.model]
           o == query_gpt_begin(t, c, db, rate_limiters, client)
       IN Apply(o) /\ call' = [call EXCEPT ![t] = o.call]

\* the semaphore has handed a permit to a suspended task
GResume(t) ==
    /\ UNCHANGED <<rlvars, cachevars, clozevars, ttsvars, mainvars>>
    /\ call[t].pc = "acquiring"
    /\ IsWoken(rate_limiters[query_model(call[t])], t)
    /\ LET m == query_model(call[t])
           o == enter_scope(call[t], db,
                            [rate_limiters EXCEPT ![m] = acquire_resume(@, t)])
       IN Apply(o) /\ call' = [call EXCEPT ![t] = o.call]

\* the service answers the request of a task
GResponse(t, response) ==
    /\ UNCHANGED <<rlvars, cachevars, clozevars, ttsvars, mainvars>>
    /\ call[t].pc = "requesting"
    /\ LET o == on_response(t, call[t], response, db, rate_limiters, client)
       IN Apply(o) /\ call' = [call EXCEPT ![t] = o.call]

\* a cool-down timer of a registered limiter elapses
GTimer(m, timer) ==
    /\ UNCHANGED <<rlvars, cachevars, clozevars, ttsvars, mainvars, db, client, call>>
    /\ m \in DOMAIN rate_limiters
    /\ timer \in rate_limiters[m].sleepers
    /\ rate_limiters' = [rate_limiters EXCEPT ![m] = sleeper_callback(@, timer)]

GenNext ==
    \/ \E t \in Callers, entry \in Entries, word \in Words, meaning \in Meanings :
          GCall(t, entry, word, meaning)
    \/ \E t \in Callers : GResume(t)
    \/ \E t \in Callers, response \in Responses : GResponse(t, response)
    \/ \E m \in Models, timer \in GenTimerIds : GTimer(m, timer)

(***************************************************************************)
(* Harness for the limiter: NumTasks tasks run `async with limiter: work`. *)
(* The work awaits, so the timer of a slot can fire while its task is      *)
(* still inside the scope; the work ends normally or with an exception.    *)
(***************************************************************************)
RLInit ==
    /\ limiter = RateLimiter(Capacity)
    /\ rlpc = [t \in RLTasks |-> "idle"]
    /\ timerFired = FALSE

\* a task that holds a permit finishes __aenter__
AfterPermit(t, L) ==
    LET L1 == start_sleeper(L) IN
    /\ limiter' = L1
    /\ rlpc' = [rlpc EXCEPT ![t] = IF aenter_assert(L1) THEN "scope" ELSE "assert_failed"]

\* `async with limiter:` up to the first suspension
RLEnter(t) ==
    /\ UNCHANGED <<db, cachevars, genvars, clozevars, ttsvars, mainvars>>
    /\ rlpc[t] = "idle"
    /\ UNCHANGED timerFired
    /\ IF ~locked(limiter)
         THEN AfterPermit(t, acquire_now(limiter))
         ELSE /\ limiter' = acquire_wait(limiter, t)
              /\ rlpc' = [rlpc EXCEPT ![t] = "waiting"]

\* a suspended acquirer whose future is done runs on
RLResume(t) ==
    /\ UNCHANGED <<db, cachevars, genvars, clozevars, ttsvars, mainvars>>
    /\ rlpc[t] = "waiting"
    /\ IsWoken(limiter, t)
    /\ AfterPermit(t, acquire_resume(limiter, t))
    /\ UNCHANGED timerFired

\* the guarded work ends and the task leaves the scope
RLExit(t) ==
    /\ UNCHANGED <<db, cachevars, genvars, clozevars, ttsvars, mainvars>>
    /\ rlpc[t] = "scope"
    /\ limiter' = aexit(limiter)
    /\ rlpc' = [rlpc EXCEPT ![t] = "exited"]
    /\ UNCHANGED timerFired

\* the guarded work raises and the exception leaves the scope
RLFail(t) ==
    /\ UNCHANGED <<db, cachevars, genvars, clozevars, ttsvars, mainvars>>
    /\ rlpc[t] = "scope"
    /\ limiter' = aexit(limiter)
    /\ rlpc' = [rlpc EXCEPT ![t] = "failed"]
    /\ UNCHANGED timerFired

\* the task body is run again (the next request of the same worker)
RLAgain(t) ==
    /\ UNCHANGED <<db, cachevars, genvars, clozevars, ttsvars, mainvars>>
    /\ rlpc[t] \in {"exited", "failed"}
    /\ rlpc' = [rlpc EXCEPT ![t] = "idle"]
    /\ UNCHANGED <<limiter, timerFired>>

\* a cool-down timer elapses and its done callback runs
RLTimer(timer) ==
    /\ UNCHANGED <<db, cachevars, genvars, clozevars, ttsvars, mainvars>>
    /\ timer \in limiter.sleepers
    /\ limiter' = sleeper_callback(limiter, timer)
    /\ timerFired' = TRUE
    /\ UNCHANGED rlpc

\* a task suspended in acquire is cancelled, before or after release has
\* handed it a permit
RLCancel(t) ==
    /\ UNCHANGED <<db, cachevars, genvars, clozevars, ttsvars, mainvars>>
    /\ rlpc[t] = "waiting"
    /\ limiter' = acquire_cancel(limiter, t)
    /\ rlpc' = [rlpc EXCEPT ![t] = "cancelled"]
    /\ UNCHANGED timerFired

CacheInit ==
    /\ putlog = [word \in CacheWords |-> <<>>]
    /\ cacheOps = 0
    /\ lastOp = NoOp

NoLimiters == [m \in {} |-> RateLimiter(0)]

GenInit ==
    /\ rate_limiters = NoLimiters
    /\ client = FALSE
    /\ call = [t \in Callers |-> IdleCall]

\* a fresh process and no cache file
\* no Cloze has been made
NoCloze == [made |-> FALSE, context |-> <<>>, deletions |-> <<>>,
            cloze |-> <<>>, sentence |-> <<>>]

ClozeInit == raw = <<>> /\ cz = NoCloze

TtsInit ==
    /\ speech = [t \in Speakers |-> IdleSpeech]
    /\ files = {}
    /\ count = 0

MainInit ==
    /\ args = [include_tags |-> {}, exclude_tags |-> {}]
    /\ notes = <<>>
    /\ batch = NoBatch

Init ==
    /\ RLInit /\ CacheInit /\ GenInit /\ ClozeInit /\ TtsInit /\ MainInit
    /\ db = NoDatabase

\* a process in which the cache file may hold a row of an earlier run and
\* the permits of tts-1-hd may have been taken by calls that have ended
InitGen ==
    /\ RLInit /\ CacheInit /\ ClozeInit /\ TtsInit /\ MainInit
    /\ db \in {NoDatabase, Populated}
    /\ rate_limiters \in {NoLimiters, UsedUp}
    /\ client = (rate_limiters # NoLimiters)
    /\ call = [t \in Callers |-> IdleCall]

(***************************************************************************)
(* Harness for tts: NumSpeakers tasks call tts with a text and a path from *)
(* small sets; the service answers every request with audio or an error.   *)
(***************************************************************************)
Paths == {audio_path(<<"p">>), audio_path(<<"k">>)}
\* texts as make_sentence_note hands them over, and texts of markup only
Sentences == {<<"<", "b", ">", "p", "<", "/", "b", ">">>,
              <<"<", "b", ">", "<", "/", "b", ">">>, <<>>}
Audio == [error |-> FALSE, content |-> <<>>]
SpeechResponses == {Audio, ServiceError}

ApplySpeech(o) ==
    /\ files' = o.files
    /\ count' = o.count
    /\ rate_limiters' = o.rate_limiters
    /\ client' = o.client

\* a task calls tts
TtsCall(t, text, path) ==
    /\ UNCHANGED <<rlvars, db, cachevars, clozevars, mainvars, call>>
    /\ speech[t].pc = "idle"
    /\ LET f == [IdleSpeech EXCEPT !.sentence = text, !.path = path]
           o == tts_begin(t, f, files, count, rate_limiters, client)
       IN ApplySpeech(o) /\ speech' = [speech EXCEPT ![t] = o.speech]

\* the event loop resumes a suspended call: with the permit it waited for,
\* or with the answer of the service to its request
TtsWake(t, response) ==
    /\ UNCHANGED <<rlvars, db, cachevars, clozevars, mainvars, call>>
    /\ \/ speech[t].pc = "acquiring" /\ IsWoken(rate_limiters[tts_model], t)
       \/ speech[t].pc = "requesting"
    /\ LET o == IF speech[t].pc = "acquiring"
                THEN tts_resume(t, speech[t], files, count, rate_limiters)
                ELSE tts_response(speech[t], response, files, count,
                                  rate_limiters, client)
       IN ApplySpeech(o) /\ speech' = [speech EXCEPT ![t] = o.speech]

\* a cool-down timer of the tts-1 limiter elapses
TtsTimer(timer) ==
    /\ UNCHANGED <<rlvars, db, cachevars, clozevars, mainvars, client, call, speech, files, count>>
    /\ tts_model \in DOMAIN rate_limiters
    /\ timer \in rate_limiters[tts_model].sleepers
    /\ rate_limiters' = [rate_limiters EXCEPT ![tts_model] = sleeper_callback(@, timer)]

TtsTimerIds == 1..NumSpeakers

TtsNext ==
    \/ \E t \in Speakers, text \in Sentences, path \in Paths : TtsCall(t, text, path)
    \/ \E t \in Speakers, response \in SpeechResponses : TtsWake(t, response)
    \/ \E timer \in TtsTimerIds : TtsTimer(timer)

\* a fresh process; the media directory may hold a file of an earlier run
InitTts ==
    /\ RLInit /\ CacheInit /\ GenInit /\ ClozeInit /\ MainInit /\ db = NoDatabase
    /\ speech = [t \in Speakers |-> IdleSpeech]
    /\ files \in {{}, {audio_path(<<"p">>)}}
    /\ count = 0

SpecTts == InitTts /\ [][TtsNext]_vars

(***************************************************************************)
(* Harness for the batch of make_notes: the TaskGroup is handed up to      *)
(* MaxBatch tasks; the tasks, their done callbacks, the timers and the     *)
(* waiting parent run in any order the event loop allows.                  *)
(***************************************************************************)
World ==
    [db |-> db, rate_limiters |-> rate_limiters, client |-> client,
     files |-> files, count |-> count,
     deck |-> batch.deck, media_files |-> batch.media_files]

\* the step of task i has left the world w and the task record o.task
ApplyStep(i, o) ==
    /\ db' = o.w.db
    /\ rate_limiters' = o.w.rate_limiters
    /\ client' = o.w.client
    /\ files' = o.w.files
    /\ count' = o.w.count
    /\ batch' = [batch EXCEPT !.tasks[i] = o.task, !.deck = o.w.deck,
                              !.media_files = o.w.media_files]

\* lines 256-261 for the tasks handed over
BatchStart ==
    /\ UNCHANGED <<rlvars, cachevars, clozevars, genvars, ttsvars, db, args, notes>>
    /\ batch.pc = "start"
    /\ batch' = start_group(batch, batch.pending)

\* the first step of a task: its body runs to its first suspension or its
\* end, unless the task was cancelled before it started
BatchTaskStart(i) ==
    /\ UNCHANGED <<rlvars, cachevars, clozevars, call, speech, args, notes>>
    /\ batch.pc = "joining"
    /\ i \in 1..Len(batch.tasks)
    /\ batch.tasks[i].st = "created"
    /\ ApplyStep(i, IF batch.tasks[i].must_cancel
                    THEN note_cancel(i, batch.tasks[i], World)
                    ELSE note_start(i, batch.tasks[i], World))

\* a suspended task is resumed: by its cancellation, with the permit it
\* waited for, or with the answer of the service to its request
BatchTaskWake(i, response) ==
    /\ UNCHANGED <<rlvars, cachevars, clozevars, call, speech, args, notes>>
    /\ batch.pc = "joining"
    /\ i \in 1..Len(batch.tasks)
    /\ LET task == batch.tasks[i] IN
       /\ task.st = "suspended"
       /\ \/ task.must_cancel
          \/ task.call.pc = "requesting"
          \/ task.speech.pc = "requesting"
          \/ task.call.pc = "acquiring"
                /\ IsWoken(rate_limiters[query_model(task.call)], i)
          \/ task.speech.pc = "acquiring" /\ IsWoken(rate_limiters[tts_model], i)
       /\ ApplyStep(i, IF task.must_cancel
                       THEN note_cancel(i, task, World)
                       ELSE note_wake(i, task, response, World))

\* the two done callbacks of a task that has ended run one after the other
BatchCallbacks(i) ==
    /\ UNCHANGED <<rlvars, cachevars, clozevars, genvars, ttsvars, db, args, notes>>
    /\ i \in 1..Len(batch.tasks)
    /\ batch.tasks[i].st = "done" /\ ~batch.tasks[i].reported
    /\ batch' = bar_update(on_task_done(batch, i))

\* the parent is resumed in TaskGroup.__aexit__
BatchJoin ==
    /\ UNCHANGED <<rlvars, cachevars, clozevars, genvars, ttsvars, db, args, notes>>
    /\ batch.pc = "joining" /\ batch.wake
    /\ batch' = group_aexit(batch)

\* a cool-down timer of a registered limiter elapses
BatchTimer(m, timer) ==
    /\ UNCHANGED <<rlvars, cachevars, clozevars, ttsvars, mainvars, db, client, call>>
    /\ m \in DOMAIN rate_limiters
    /\ timer \in rate_limiters[m].sleepers
    /\ rate_limiters' = [rate_limiters EXCEPT ![m] = sleeper_callback(@, timer)]

BatchResponses == SpeechResponses \cup Responses
BatchTimerIds == 1..MaxBatch

BatchNext ==
    \/ BatchStart
    \/ \E i \in 1..MaxBatch : BatchTaskStart(i)
    \/ \E i \in 1..MaxBatch, response \in BatchResponses : BatchTaskWake(i, response)
    \/ \E i \in 1..MaxBatch : BatchCallbacks(i)
    \/ BatchJoin
    \/ \E timer \in BatchTimerIds : BatchTimer(tts_model, timer)

\* the words of the notes: "p" has a cached row, the cached row of "e" has
\* an empty deletion, "k" is not cached
BatchWords == {<<"p">>, <<"e">>, <<"k">>}
BatchArgs == {[word |-> w, meaning |-> <<"q">>] : w \in BatchWords}
BatchLists == UNION {[1..n -> BatchArgs] : n \in 0..MaxBatch}

\* a cache file in which earlier runs have left rows for two of the words
Empty_row == <<"{", "}", "\n", "{", "q", "}">>
BatchPopulated ==
    encache_sentences(
        encache_sentences(NoDatabase, <<"p", " ", "(", "q", ")">>, <<Marked_row>>),
        <<"e", " ", "(", "q", ")">>, <<Empty_row>>)

\* the program before make_notes runs
InitBatch ==
    /\ RLInit /\ CacheInit /\ GenInit /\ ClozeInit
    /\ speech = [t \in Speakers |-> IdleSpeech]
    /\ count = 0
    /\ db \in {NoDatabase, BatchPopulated}
    /\ files \in {{}, {audio_path(<<"p">>)}}
    /\ args = [include_tags |-> {}, exclude_tags |-> {}]
    /\ notes = <<>>
    /\ batch \in {[NoBatch EXCEPT !.pending = l] : l \in BatchLists}

SpecBatch == InitBatch /\ [][BatchNext]_vars

(***************************************************************************)
(* Harness for the driver: make_notes runs on a collection of up to        *)
(* MaxNotes notes under tag filters from small sets, then its batch runs.  *)
(***************************************************************************)
\* make_notes from its first line to its first suspension (lines 229-261),
\* and sys.exit(1) or lines 263-267 when it does not suspend
MakeNotes ==
    /\ UNCHANGED <<rlvars, cachevars, clozevars, genvars, ttsvars, db, args, notes>>
    /\ batch.pc = "start"
    /\ LET r == make_notes_loop(considered(notes), args, <<>>) IN
       batch' = IF r.exit THEN [batch EXCEPT !.pc = "exited"]
                ELSE start_group(batch, r.tasks)

MainNext ==
    \/ MakeNotes
    \/ \E i \in 1..MaxNotes : BatchTaskStart(i)
    \/ \E i \in 1..MaxNotes, response \in BatchResponses : BatchTaskWake(i, response)
    \/ \E i \in 1..MaxNotes : BatchCallbacks(i)
    \/ BatchJoin
    \/ \E timer \in 1..MaxNotes : BatchTimer(tts_model, timer)

\* notes of the selected model (1) or another, with a tag or none, whose
\* word field holds a word or nothing
NoteSet ==
    [model : {source_model, 2}, tags : {{}, {"a"}, {"b"}},
     word : {<<"p">>, <<"<", "b", ">", "k", "<", "/", "b", ">">>, <<>>},
     meaning : {<<" ", "q">>}]
Collections == UNION {[1..n -> NoteSet] : n \in 0..MaxNotes}

InitMain ==
    /\ RLInit /\ CacheInit /\ GenInit /\ ClozeInit
    /\ speech = [t \in Speakers |-> IdleSpeech]
    /\ count = 0
    /\ db = BatchPopulated
    /\ files = {}
    /\ args \in [include_tags : {{}, {"a"}}, exclude_tags : {{}, {"b"}}]
    /\ notes \in Collections
    /\ batch = NoBatch

SpecMain == InitMain /\ [][MainNext]_vars

(***************************************************************************)
(* Harness for Cloze: a raw string of up to MaxRawLen characters is parsed *)
(* and the two cached properties are read, each computed on first use.     *)
(***************************************************************************)
RawChars == {"{", "}", "p"}
RawStrings == UNION {[1..n -> RawChars] : n \in 0..MaxRawLen}

ClozeFromStr ==
    /\ UNCHANGED <<rlvars, db, cachevars, genvars, ttsvars, mainvars, raw>>
    /\ ~cz.made
    /\ cz' = [cz EXCEPT !.made = TRUE, !.context = from_str(raw).context,
                        !.deletions = from_str(raw).deletions]

\* functools.cached_property: <<>> until first read, then <<the view>>
ClozeCloze ==
    /\ UNCHANGED <<rlvars, db, cachevars, genvars, ttsvars, mainvars, raw>>
    /\ cz.made /\ cz.cloze = <<>>
    /\ cz' = [cz EXCEPT !.cloze = <<Cloze_cloze(cz)>>]

ClozeSentence ==
    /\ UNCHANGED <<rlvars, db, cachevars, genvars, ttsvars, mainvars, raw>>
    /\ cz.made /\ cz.sentence = <<>>
    /\ cz' = [cz EXCEPT !.sentence = <<Cloze_sentence(cz)>>]

ClozeNext == ClozeFromStr \/ ClozeCloze \/ ClozeSentence

InitCloze ==
    /\ RLInit /\ CacheInit /\ GenInit /\ TtsInit /\ MainInit /\ db = NoDatabase
    /\ raw \in RawStrings /\ cz = NoCloze

SpecCloze == InitCloze /\ [][ClozeNext]_vars

SpecCache == Init /\ [][CacheNext]_vars

SpecGen == InitGen /\ [][GenNext]_vars

RLNext ==
    \/ \E t \in RLTasks : RLEnter(t)
    \/ \E t \in RLTasks : RLResume(t)
    \/ \E t \in RLTasks : RLExit(t)
    \/ \E t \in RLTasks : RLFail(t)
    \/ \E t \in RLTasks : RLAgain(t)
    \/ \E timer \in TimerIds : RLTimer(timer)

SpecRL == Init /\ [][RLNext]_vars

\* the tasks of the limiter may also be cancelled while they wait for a slot
RLCancelNext ==
    \/ RLNext
    \/ \E t \in RLTasks : RLCancel(t)

SpecRLCancel == Init /\ [][RLCancelNext]_vars

\* the event loop runs every ready callback and every sleep(61) ends
FairSpecRL ==
    /\ SpecRL
    /\ \A t \in RLTasks : WF_vars(RLResume(t))
    /\ \A timer \in TimerIds : WF_vars(RLTimer(timer))

(***************************************************************************)
(* Properties of the RateLimiter.                                          *)
(***************************************************************************)
Woken(L) == {i \in 1..Len(L.waiters) : L.waiters[i].done}
\* permits that are free or already handed to a suspended acquirer
Freed(L) == L.value + Cardinality(Woken(L))

\* C1: the pending cool-down timers of a limiter of capacity C, together
\* with the permits handed to acquirers that have not started their timer
\* yet, never number more than C, and the assertion of __aenter__ never fails.
C1_SleepersWithinCapacity ==
    /\ Cardinality(limiter.sleepers) + Cardinality(Woken(limiter)) <= limiter.rpm
    /\ \A t \in RLTasks : rlpc[t] # "assert_failed"

\* the limiter is full while a further task wants a slot
C1_Witness ==
    /\ Cardinality(limiter.sleepers) = Capacity
    /\ \E t \in RLTasks : rlpc[t] = "waiting"

\* C2: as long as no timer has elapsed, at most C tasks are admitted and
\* every further task that entered stays suspended with C timers pending;
\* a suspended task is admitted eventually, timers elapsing.
C2_BlocksUntilTimer ==
    /\ [](~timerFired =>
            /\ Cardinality({t \in RLTasks : rlpc[t] \notin {"idle", "waiting"}}) <= Capacity
            /\ \A t \in RLTasks :
                  rlpc[t] = "waiting" =>
                      /\ ~IsWoken(limiter, t)
                      /\ limiter.value = 0
                      /\ Cardinality(limiter.sleepers) = Capacity)
    /\ \A t \in RLTasks : (rlpc[t] = "waiting") ~> (rlpc[t] = "scope")

\* C + 1 tasks have entered, C hold a slot and the last one is suspended
C2_Witness ==
    /\ ~timerFired
    /\ Cardinality({t \in RLTasks : rlpc[t] = "scope"}) = Capacity
    /\ Cardinality({t \in RLTasks : rlpc[t] = "waiting"}) = 1

\* C3: a step in which a task leaves the scope, normally or by an
\* exception, changes neither the permits nor the pending timers, and
\* whenever a permit is freed a pending timer has gone in the same step.
C3_ExitKeepsSlot ==
    [][/\ \A t \in RLTasks :
             (rlpc[t] = "scope" /\ rlpc'[t] \in {"exited", "failed"}) =>
                 /\ limiter'.value = limiter.value
                 /\ limiter'.waiters = limiter.waiters
                 /\ limiter'.sleepers = limiter.sleepers
       /\ Freed(limiter') > Freed(limiter) =>
             \E timer \in limiter.sleepers :
                 limiter'.sleepers = limiter.sleepers \ {timer}]_rlvars

\* one task has left the scope normally and one by an exception, nobody is
\* inside the scope, and the timers of all C slots are still pending
C3_Witness ==
    /\ \E t1, t2 \in RLTasks : rlpc[t1] = "exited" /\ rlpc[t2] = "failed"
    /\ \A t \in RLTasks : rlpc[t] \in {"idle", "exited", "failed"}
    /\ ~timerFired
    /\ Cardinality(limiter.sleepers) = Capacity

(***************************************************************************)
(* Properties of the sentence cache.                                       *)
(***************************************************************************)
\* C4: get(word) returns exactly the strings put for the word since its
\* last invalidate, in insertion order, for every word.
C4_CacheRoundTrip ==
    \A word \in CacheWords : decache_sentences(db, word) = putlog[word]

(***************************************************************************)
(* Properties of query_gpt and example_sentences.                          *)
(***************************************************************************)
Unbrace(s) == SelectSeq(s, LAMBDA ch : ch \notin {"{", "}"})
Last(seq) == seq[Len(seq)]
\* the service has only sent texts that query_gpt rejects with ValueError
OnlyBad(served) ==
    \A i \in 1..Len(served) : served[i] \in {Malformed, Unrepairable}
IsPrefix(a, b) == Len(a) <= Len(b) /\ a = SubSeq(b, 1, Len(a))

\* C5: a call made while the cache holds rows for its word ends at once
\* with exactly those rows: the file and the limiters are left as they
\* were and neither a slot is taken nor a request sent.
C5_CacheHitReturnsAtOnce ==
    [][\A t \in Callers :
          (/\ call[t].pc = "idle" /\ call'[t].pc # "idle"
           /\ decache_sentences(db, call'[t].word) # <<>>) =>
              /\ call'[t].pc = "done"
              /\ call'[t].exc = ""
              /\ call'[t].rows = decache_sentences(db, call'[t].word)
              /\ call'[t].slots = 0
              /\ call'[t].requests = 0
              /\ db' = db
              /\ rate_limiters' = rate_limiters]_vars

\* a call has ended on a cache hit
C5_Witness ==
    \E t \in Callers :
        /\ call[t].pc = "done" /\ Hits(call[t]) = 1
        /\ call[t].rows = <<Marked_row>>
        /\ call[t].requests = 0

\* C6: every invocation of query_gpt that found no cached row has taken
\* exactly one slot and sent exactly one request, whichever way it was
\* invoked.
C6_OneSlotOneRequest ==
    \A t \in Callers :
        (call[t].pc \in {"requesting", "done"} /\ Hits(call[t]) = 0) =>
            /\ call[t].slots = Calls(call[t])
            /\ call[t].requests = Calls(call[t])

\* C7: when a response is accepted (the call ends well in the step in which
\* the response arrives, without a cache hit) the call ends with a
\* one-element list;
\* its element is a two-line string whose first line carries a marked span
\* and which is the response's two lines but for braces and case; exactly
\* that row is appended to the sentences table, get(word) grows by it and
\* get of the other words is unchanged.
C7_SuccessCachesOneRow ==
    [][\A t \in Callers :
          (/\ call[t].pc = "requesting" /\ call'[t].pc = "done"
           /\ call'[t].exc = "" /\ Hits(call'[t]) = Hits(call[t])) =>
              LET word == call[t].word
                  row == call'[t].rows[1]
                  lines == split(row, Last(<<"\n">>))
                  match == response_match(strip(Last(call'[t].served).content))
              IN /\ call'[t].rows = <<row>>
                 /\ Len(lines) = 2
                 /\ cloze_re_search(lines[1])
                 /\ casefold(Unbrace(row)) =
                        casefold(Unbrace(match[1] \o <<"\n">> \o match[2]))
                 /\ Len(db'.sentences) = Len(db.sentences) + 1
                 /\ SubSeq(db'.sentences, 1, Len(db.sentences)) = db.sentences
                 /\ Last(db'.sentences).sentence = row
                 /\ decache_sentences(db', word) = Append(decache_sentences(db, word), row)
                 /\ \A other \in Words \ {word} :
                        decache_sentences(db', other) = decache_sentences(db, other)]_vars

\* a call has ended well after a response whose two lines had to be repaired
C7_Witness ==
    \E t \in Callers :
        /\ call[t].pc = "done" /\ call[t].exc = ""
        /\ call[t].served = <<Unmarked>>
        /\ decache_sentences(db, call[t].word) = call[t].rows

\* C8: an example_sentences call that found nothing cached and was sent
\* only unusable responses has, once ended, called query_gpt 3 times and
\* failed with the error that carries the 3 messages.
C8_ExhaustedAfterThree ==
    \A t \in Callers :
        (/\ call[t].kind = "example_sentences" /\ call[t].pc = "done"
         /\ Hits(call[t]) = 0 /\ OnlyBad(call[t].served)) =>
            /\ call[t].exc = "ValueError"
            /\ call[t].msg.what = "repeatedly queried GPT"
            /\ Len(call[t].errors) = Attempts
            /\ call[t].requests = Attempts

\* C9: an example_sentences call that found nothing cached and was sent
\* malformed, malformed, valid (as far as it asked) has, once ended,
\* returned examples after 3 calls of query_gpt with 2 recorded errors.
C9_ThirdAttemptSucceeds ==
    \A t \in Callers :
        (/\ call[t].kind = "example_sentences" /\ call[t].pc = "done"
         /\ Hits(call[t]) = 0
         /\ IsPrefix(call[t].served, <<Malformed, Malformed, Marked>>)) =>
            /\ call[t].exc = ""
            /\ call[t].examples # <<>>
            /\ Calls(call[t]) = 3
            /\ Len(call[t].errors) = 2

\* C10: an example_sentences call whose first attempt found nothing cached
\* and which was sent only unusable responses has, once ended, recorded
\* the failure of an attempt and started a further attempt after it, and
\* no further attempt found a row for the word in the cache.
C10_RetryOnEmptyCache ==
    \A t \in Callers :
        (/\ call[t].kind = "example_sentences" /\ call[t].pc = "done"
         /\ ~call[t].found[1] /\ OnlyBad(call[t].served)) =>
            /\ call[t].errors # <<>>
            /\ Calls(call[t]) > 1
            /\ Hits(call[t]) = 0

\* the alternatives encloze looks for, and whether one of them occurs in a
\* line whatever the case
Alternatives(words) ==
    comma_re_split(strip_parenthetical(strip_html(strip_ruby(words))))
OccursIn(words, line) ==
    \E k \in 1..Len(Alternatives(words)) :
        index(casefold(line), casefold(Alternatives(words)[k])) # 0
\* the two lines of the one response a direct call of query_gpt was sent
Lines(c) == response_match(strip(c.served[1].content))
\* a direct call of query_gpt has ended after one response that has two lines
Answered(c) ==
    /\ c.kind = "query_gpt" /\ c.pc = "done"
    /\ Len(c.served) = 1 /\ ~c.served[1].error
    /\ Lines(c) # <<>>

\* C11: a direct call that ended after a two-line response whose sentence
\* line has no marked span failed with the error of encloze exactly if no
\* alternative of the word occurs in the sentence line; if one occurs the
\* call returned a row whose first line has a marked span.
C11_SentenceRepair ==
    \A t \in Callers :
        (Answered(call[t]) /\ ~cloze_re_search(Lines(call[t])[1])) =>
            LET c == call[t]
                failed == c.exc = "ValueError" /\ c.msg.what = "could not cloze any of"
            IN /\ failed <=> ~OccursIn(c.word, Lines(c)[1])
               /\ OccursIn(c.word, Lines(c)[1]) =>
                      /\ c.exc = ""
                      /\ Len(c.rows) = 1
                      /\ cloze_re_search(split(c.rows[1], Last(<<"\n">>))[1])

\* C12: a direct call that ended after a two-line response whose sentence
\* line was accepted and whose translation line has no marked span and
\* cannot be repaired (no meaning was given, or none of its alternatives
\* occurs) returned one row whose second line is the translation line as
\* it came, and that row is in the cache under the word.
C12_TranslationBestEffort ==
    \A t \in Callers :
        LET c == call[t] IN
        (/\ Answered(c)
         /\ cloze_re_search(Lines(c)[1]) \/ OccursIn(c.word, Lines(c)[1])
         /\ ~cloze_re_search(Lines(c)[2])
         /\ c.meaning = <<>> \/ ~OccursIn(c.meaning[1], Lines(c)[2])) =>
            /\ c.exc = ""
            /\ Len(c.rows) = 1
            /\ split(c.rows[1], Last(<<"\n">>))[2] = Lines(c)[2]
            /\ \E i \in 1..Len(decache_sentences(db, c.word)) :
                   decache_sentences(db, c.word)[i] = c.rows[1]

\* C18: right after invalidate(word) the words table holds no row for the
\* word, so that an existence check for it is negative.
C18_InvalidateRemovesWord ==
    lastOp.op = "invalidate" => select_word_ids(db, lastOp.word) = <<>>

\* C20: right after put(word, []) the stored state is the one the call
\* started from, no row having been added to either table, and get of every
\* word returns what it returned before the call.
C20_EmptyPutIsNoOp ==
    (lastOp.op = "put" /\ lastOp.sentences = <<>>) =>
        /\ db.words = lastOp.before.words
        /\ db.sentences = lastOp.before.sentences
        /\ \A word \in CacheWords :
               decache_sentences(db, word) = decache_sentences(lastOp.before, word)

(***************************************************************************)
(* Properties of Cloze.                                                    *)
(***************************************************************************)
\* number of occurrences of the placeholder "..." in a string
RECURSIVE Placeholders(_)
Placeholders(s) ==
    LET i == index(s, Ellipsis) IN
    IF i = 0 THEN 0 ELSE 1 + Placeholders(From(s, i + Len(Ellipsis)))

\* C19: the masked view of a Cloze parsed from any raw string, whatever the
\* number of its marked spans, contains exactly one placeholder.
C19_OnePlaceholder ==
    cz.cloze # <<>> => Placeholders(cz.cloze[1]) = 1

(***************************************************************************)
(* Properties of tts.                                                      *)
(***************************************************************************)
\* C13: a call made while its path exists ends at once: no request, no
\* slot, the voice counter, the limiters and the files as they were.  No
\* file ever disappears and a call that ends well after its request leaves
\* its path existing, so that a later call with that path sends nothing.
C13_ExistingPathIsNoOp ==
    [][/\ files \subseteq files'
       /\ \A t \in Speakers :
          /\ (/\ speech[t].pc = "idle" /\ speech'[t].pc # "idle"
              /\ speech'[t].path \in files) =>
                 /\ speech'[t].pc = "done" /\ speech'[t].exc = ""
                 /\ speech'[t].requests = 0 /\ speech'[t].slots = 0
                 /\ count' = count
                 /\ rate_limiters' = rate_limiters
                 /\ files' = files
          /\ (/\ speech[t].pc = "requesting" /\ speech'[t].pc = "done"
              /\ speech'[t].exc = "") => speech'[t].path \in files']_vars

\* two calls with one path have ended well, the first after one request
\* and the second without any
C13_Witness ==
    \E t, u \in Speakers :
        /\ t # u /\ speech[t].path = speech[u].path
        /\ speech[t].pc = "done" /\ speech[t].exc = "" /\ speech[t].requests = 1
        /\ speech[u].pc = "done" /\ speech[u].exc = "" /\ speech[u].requests = 0
        /\ count = 1

\* C14: a call for a path that does not exist whose text is empty once the
\* markup is stripped ends at once with the Exception: no slot, no
\* request, the voice counter, the limiters and the files as they were;
\* and a call that has ended is never taken up again.
C14_EmptyTextFailsFast ==
    [][\A t \in Speakers :
          /\ (/\ speech[t].pc = "idle" /\ speech'[t].pc # "idle"
              /\ speech'[t].path \notin files
              /\ strip_html(strip_ruby(speech'[t].sentence)) = <<>>) =>
                 /\ speech'[t].pc = "done" /\ speech'[t].exc = "Exception"
                 /\ speech'[t].requests = 0 /\ speech'[t].slots = 0
                 /\ count' = count
                 /\ rate_limiters' = rate_limiters
                 /\ files' = files
          /\ speech[t].pc = "done" => speech'[t] = speech[t]]_vars

\* a call with a text of markup only has failed while another call went on
\* to its request
C14_Witness ==
    \E t, u \in Speakers :
        /\ speech[t].pc = "done" /\ speech[t].exc = "Exception"
        /\ speech[t].sentence # <<>> /\ speech[t].path \notin files
        /\ speech[u].pc = "requesting"

(***************************************************************************)
(* Properties of the batch of make_notes.                                  *)
(***************************************************************************)
Tasks == 1..Len(batch.tasks)
Reported == {i \in Tasks : batch.tasks[i].reported}

\* C15: once the error of a task has reached the group, every sibling has
\* ended or is being cancelled, and a sibling whose cancellation was
\* requested ends cancelled; the group does not end well: it fails, with
\* that error among its errors, and the package is not written.
C15_ErrorCancelsSiblings ==
    \A i \in Tasks :
        (batch.tasks[i].reported /\ IsError(batch.tasks[i].outcome)) =>
            /\ \A j \in Tasks \ {i} :
                  /\ batch.tasks[j].st = "done" \/ batch.tasks[j].must_cancel
                  /\ (batch.tasks[j].st = "done" /\ batch.tasks[j].must_cancel) =>
                         batch.tasks[j].outcome = "cancelled"
            /\ batch.pc \in {"joining", "failed"}
            /\ [task |-> i, exc |-> batch.tasks[i].outcome] \in
                   {batch.errors[k] : k \in 1..Len(batch.errors)}
            /\ Reported = Tasks => batch.pc = "failed" \/ batch.wake

\* the group has failed with the error of one task after a sibling that was
\* suspended in its request has ended cancelled
C15_Witness ==
    \E i, j \in Tasks :
        /\ batch.pc = "failed"
        /\ IsError(batch.tasks[i].outcome)
        /\ batch.tasks[j].outcome = "cancelled"
        /\ batch.tasks[j].speech.requests = 1
        /\ Len(batch.errors) = 1

\* C16: the counter never decreases and always equals the number of tasks
\* whose done callbacks have run, each of which has ended, well or with
\* an error or cancelled; it never exceeds the total and equals it once
\* the join has returned or failed.
C16_ProgressCounts ==
    [][/\ batch'.bar.n >= batch.bar.n
       /\ LET b == batch' IN
          /\ b.bar.n = Cardinality({i \in 1..Len(b.tasks) : b.tasks[i].reported})
          /\ \A i \in 1..Len(b.tasks) :
                 b.tasks[i].reported =>
                     /\ b.tasks[i].st = "done"
                     /\ \/ b.tasks[i].outcome \in {"ok", "cancelled"}
                        \/ IsError(b.tasks[i].outcome)
          /\ b.bar.n <= b.bar.total
          /\ b.pc \in {"written", "failed"} =>
                 b.bar.n = b.bar.total /\ b.bar.total = Len(b.tasks)]_vars

\* the join has failed after one task ended with an error and another was
\* cancelled, and the counter stands at the total
C16_Witness ==
    /\ batch.pc = "failed"
    /\ batch.bar.n = batch.bar.total /\ batch.bar.total = MaxBatch
    /\ \E i, j \in Tasks :
          batch.tasks[i].outcome = "cancelled" /\ IsError(batch.tasks[j].outcome)

\* C17: when make_notes has made its tasks, there are as many of them as
\* there are notes of the collection that have the selected model and pass
\* the tag filters.
C17_OneTaskPerSelectedNote ==
    batch.pc \in {"joining", "written", "failed"} =>
        Len(batch.tasks) =
            Cardinality({i \in 1..Len(notes) : selected(notes[i], args)})

\* C21: a direct call that returned a row after a two-line response whose
\* sentence line had no marked span holds, as the first line of the row, the
\* sentence line with delimiters put around the first occurrence of an
\* alternative: without its delimiters it is the sentence line as it came,
\* every character and its case kept.
C21_RepairInPlace ==
    \A t \in Callers :
        LET c == call[t] IN
        (/\ Answered(c) /\ c.exc = "" /\ Len(c.rows) = 1
         /\ ~cloze_re_search(Lines(c)[1])) =>
            Unbrace(split(c.rows[1], Last(<<"\n">>))[1]) = Lines(c)[1]

\* C23 as stated: in every state the free permits and the pending cool-down
\* timers of the limiter number C together.
C23_FreePlusTimers ==
    limiter.value + Cardinality(limiter.sleepers) = limiter.rpm

\* C23: in every state the free permits, the permits release has handed to
\* suspended acquirers that have not run on yet, and the pending cool-down
\* timers number C together; a step that admits a task starts exactly one
\* timer and takes one permit, a step in which a timer ends frees exactly
\* one permit, and no other step (a task leaving the scope, failing, or
\* being cancelled while it waits) changes the permits or the timers.
C23_SlotsConserved ==
    /\ [](Freed(limiter) + Cardinality(limiter.sleepers) = limiter.rpm)
    /\ [][IF \E t \in RLTasks : rlpc[t] \in {"idle", "waiting"} /\ rlpc'[t] = "scope"
          THEN /\ \E n \in TimerIds \ limiter.sleepers :
                     limiter'.sleepers = limiter.sleepers \cup {n}
               /\ Freed(limiter') = Freed(limiter) - 1
          ELSE \/ /\ limiter'.sleepers = limiter.sleepers
                  /\ Freed(limiter') = Freed(limiter)
               \/ /\ \E timer \in limiter.sleepers :
                         limiter'.sleepers = limiter.sleepers \ {timer}
                  /\ Freed(limiter') = Freed(limiter) + 1]_rlvars

\* a task was cancelled while it waited, and a permit freed by a timer is
\* in the hands of a suspended acquirer that has not run on yet
C23_Witness ==
    /\ \E t \in RLTasks : rlpc[t] = "cancelled"
    /\ Woken(limiter) # {}
    /\ limiter.value + Cardinality(limiter.sleepers) = Capacity - 1

\* C24: a step in which a call fails with the ValueError of a response that
\* does not parse or of a repair that found no alternative leaves the cache
\* file as it was, no row of either table written; rows are written only in
\* steps in which a call returns the row made from a response, so failed
\* attempts leave get of every word as it was.
C24_FailureLeavesCache ==
    [][/\ \A t \in Callers :
             (/\ call[t].pc # "done" /\ call'[t].pc = "done"
              /\ call'[t].exc = "ValueError") =>
                 /\ db' = db
                 /\ \A word \in Words :
                        decache_sentences(db', word) = decache_sentences(db, word)
       /\ (db'.words # db.words \/ db'.sentences # db.sentences) =>
             \E t \in Callers :
                 /\ call[t].pc # "done" /\ call'[t].pc = "done"
                 /\ call'[t].exc = ""
                 /\ Len(call'[t].served) = Len(call[t].served) + 1]_vars

\* a direct call has failed after its request because no alternative of its
\* word could be marked, and the cache holds no record of the word
C24_Witness ==
    \E t \in Callers :
        /\ call[t].pc = "done" /\ call[t].exc = "ValueError"
        /\ call[t].msg.what = "could not cloze any of"
        /\ call[t].requests = 1
        /\ select_word_ids(db, call[t].word) = <<>>
        /\ decache_sentences(db, call[t].word) = <<>>

\* the tasks of the batch that ask for the word task i asks for
SameWord(i) == {j \in Tasks : prompt_word(batch.tasks[j]) = prompt_word(batch.tasks[i])}

====
